---- MODULE Spec2Model ----
(***************************************************************************)
(* Model of notebooks/06_train_test_split.ipynb: the chronological         *)
(* train/forecast split with lag, rolling-mean and enrichment features.    *)
(*                                                                         *)
(* A DataFrame is a record [cols, rows]: cols is the set of column names,  *)
(* rows the sequence of rows, each row [time |-> index label,              *)
(* v |-> function from cols to cells].  A cell is a tuple: <<>> is a       *)
(* missing value (NaN), <<n>> the number n, <<s, w>> the mean s/w of a     *)
(* rolling window of w values, <<"sin", d, 365>> and <<"cos", d, 365>> the *)
(* sine and cosine of 2*pi*d/365.  Measurements are whole numbers.         *)
(***************************************************************************)
EXTENDS Integers, Sequences, FiniteSets, TLC

VARIABLES df, split_index, train_df, forecast_df, train_csv, forecast_csv, pc

vars == <<df, split_index, train_df, forecast_df, train_csv, forecast_csv, pc>>

(* ---------------------------------------------------------------- bounds *)
MaxN == 56
NSeeds == 2

(* ------------------------------------------------------------- constants *)
RatioNum == 9
RatioDen == 10
TailRows == 12
HoursPerDay == 24
DaysPerYear == 365
DaysPerWeek == 7
HourBlockSize == 4

TrainLags == <<1, 2, 3, 6, 12, 24, 48>>
TrainRollWindows == <<3, 6, 12, 24>>
ForecastLags == <<1, 2, 3>>
ForecastRollWindows == <<3, 6, 12>>
NightHours == {0, 1, 2, 3, 4, 5, 6, 22, 23}
appliance_cols == {"winecellar", "barn", "fridge", "well", "dishwasher", "microwave"}
weekend_cols == {"wd_Saturday", "wd_Sunday"}
Target == "use_house_overall"

(* ----------------------------------------------------------------- cells *)
NaN == <<>>
Num(n) == <<n>>
IsNaN(c) == c = NaN
Val(c) == c[1]

RECURSIVE SeqSum(_)
SeqSum(s) == IF s = <<>> THEN 0 ELSE Head(s) + SeqSum(Tail(s))

RECURSIVE SeqMax(_)
SeqMax(s) == IF s = <<>> THEN 0
             ELSE LET m == SeqMax(Tail(s)) IN IF Head(s) > m THEN Head(s) ELSE m

Range(s) == {s[i] : i \in 1..Len(s)}

(* f-strings of create_lag_features *)
LagName(lag) == "lag_" \o ToString(lag)
RollName(win) == "roll_mean_" \o ToString(win)

(* ------------------------------------------------------------ input data *)
(* The encoded hourly table as the CSV holds it: one row per hour t, the   *)
(* labels unique, the calendar columns derived from t upstream, the        *)
(* measurements never missing and varying with t and a seed.  The file     *)
(* holds at least one row: what read_csv makes of a header-only file (the  *)
(* dtype of its index) is decided by pandas, not by the notebook.          *)
Seeds == 1..NSeeds
Starts == {0, 140, 8755}
Orders == {"sorted", "reversed", "rotated"}
BaseCols == {Target, "furnace", "generated_solar", "hour"} \cup appliance_cols \cup weekend_cols

DayOfWeek(t) == (t \div HoursPerDay) % DaysPerWeek

Measure(t, seed, c) ==
    CASE c = Target -> Num((seed * t * t + 3 * t + seed) % 97)
      [] c = "furnace" -> Num((t + seed) % 3)
      [] c = "generated_solar" -> Num((5 * t + seed) % 7)
      [] c = "hour" -> Num(t % HoursPerDay)
      [] c = "winecellar" -> Num(t % 2)
      [] c = "barn" -> Num((t + seed) % 3)
      [] c = "fridge" -> Num(1)
      [] c = "well" -> Num((t \div 2) % 2)
      [] c = "dishwasher" -> Num((seed * t) % 4)
      [] c = "microwave" -> Num(t % 5)
      [] c = "wd_Saturday" -> Num(IF DayOfWeek(t) = 5 THEN 1 ELSE 0)
      [] c = "wd_Sunday" -> Num(IF DayOfWeek(t) = 6 THEN 1 ELSE 0)

RowAt(t, seed) == [time |-> t, v |-> [c \in BaseCols |-> Measure(t, seed, c)]]

FileOrder(n, i, order) ==
    CASE order = "sorted" -> i
      [] order = "reversed" -> n + 1 - i
      [] order = "rotated" -> ((i + (n \div 2) - 1) % n) + 1

read_csv(n, seed, t0, order) ==
    [cols |-> BaseCols,
     rows |-> [i \in 1..n |-> RowAt(t0 + FileOrder(n, i, order) - 1, seed)]]

(* ------------------------------------------------------- pandas helpers *)
EmptyFrame == [cols |-> {}, rows |-> <<>>]

NRows(d) == Len(d.rows)
Index(d) == [i \in 1..NRows(d) |-> d.rows[i].time]
Col(d, c) == [i \in 1..NRows(d) |-> d.rows[i].v[c]]

(* DataFrame.sort_index(): rows ascending by index label *)
RECURSIVE InsertRow(_, _)
InsertRow(sorted, r) ==
    IF sorted = <<>> THEN <<r>>
    ELSE IF r.time < Head(sorted).time THEN <<r>> \o sorted
    ELSE <<Head(sorted)>> \o InsertRow(Tail(sorted), r)

RECURSIVE SortRows(_)
SortRows(rows) ==
    IF rows = <<>> THEN <<>>
    ELSE InsertRow(SortRows(SubSeq(rows, 1, Len(rows) - 1)), rows[Len(rows)])

sort_index(d) == [cols |-> d.cols, rows |-> SortRows(d.rows)]

(* DataFrame.iloc[a:b], 0-based half-open *)
iloc(d, a, b) == [cols |-> d.cols, rows |-> SubSeq(d.rows, a + 1, b)]

(* DataFrame.tail(n) *)
tail(d, n) ==
    LET len == NRows(d)
        from == IF len > n THEN len - n ELSE 0
    IN iloc(d, from, len)

(* pd.concat([a, b]): rows of a then of b over the union of the columns *)
Widen(r, cols) ==
    [time |-> r.time,
     v |-> [c \in cols |-> IF c \in DOMAIN r.v THEN r.v[c] ELSE NaN]]

concat(a, b) ==
    LET cols == a.cols \cup b.cols
    IN [cols |-> cols,
        rows |-> [i \in 1..NRows(a) |-> Widen(a.rows[i], cols)]
                 \o [i \in 1..NRows(b) |-> Widen(b.rows[i], cols)]]

(* Series.shift(k) *)
shift(s, k) == [i \in 1..Len(s) |-> IF i > k THEN s[i - k] ELSE NaN]

(* slip: rolling(window=w, min_periods=1): the mean of whatever the window *)
(* holds                                                                   *)
rolling_mean_min_periods(s, w) ==
    [i \in 1..Len(s) |->
        LET lo == IF i >= w THEN i - w + 1 ELSE 1
            have == {j \in lo..i : ~IsNaN(s[j])}
        IN IF have = {} THEN NaN
           ELSE <<SeqSum([j \in 1..(i - lo + 1) |->
                            IF IsNaN(s[lo + j - 1]) THEN 0 ELSE Val(s[lo + j - 1])]),
                  Cardinality(have)>>]

(* Series.rolling(window=w).mean(): missing until w values are in the      *)
(* window and whenever the window holds a missing value                    *)
rolling_mean(s, w) ==
    [i \in 1..Len(s) |->
        IF i >= w /\ \A j \in (i - w + 1)..i : ~IsNaN(s[j])
        THEN <<SeqSum([j \in 1..w |-> Val(s[i - w + j])]), w>>
        ELSE NaN]

(* df[name] = series *)
SetCol(d, name, s) ==
    LET cols == d.cols \cup {name}
    IN [cols |-> cols,
        rows |-> [i \in 1..NRows(d) |->
                    [time |-> d.rows[i].time,
                     v |-> [c \in cols |-> IF c = name THEN s[i] ELSE d.rows[i].v[c]]]]]

(* Index.difference(other): the labels of a not in b, unique and sorted *)
RECURSIVE SortedSeq(_)
SortedSeq(S) ==
    IF S = {} THEN <<>>
    ELSE LET m == CHOOSE x \in S : \A y \in S : x <= y
         IN <<m>> \o SortedSeq(S \ {m})

difference(a, b) == SortedSeq(Range(a) \ Range(b))

(* DataFrame.loc[labels]: for each label in turn, the rows that carry it *)
RECURSIVE RowsWith(_, _)
RowsWith(rows, label) ==
    IF rows = <<>> THEN <<>>
    ELSE (IF Head(rows).time = label THEN <<Head(rows)>> ELSE <<>>)
         \o RowsWith(Tail(rows), label)

RECURSIVE LocRows(_, _)
LocRows(rows, labels) ==
    IF labels = <<>> THEN <<>>
    ELSE RowsWith(rows, Head(labels)) \o LocRows(rows, Tail(labels))

loc(d, labels) == [cols |-> d.cols, rows |-> LocRows(d.rows, labels)]

(* ---------------------------------------------------------- the notebook *)
(* slip: rounds to nearest instead of truncating *)
SplitIndex_Rounded(n) == (n * RatioNum + (RatioDen \div 2)) \div RatioDen

SplitIndex(n) == (n * RatioNum) \div RatioDen

(* slip: lag counted from the current row *)
LagSeries_OffByOne(s, lag) == shift(s, lag - 1)

LagSeries(s, lag) == shift(s, lag)
(* slip: the shift(1) forgotten, the window includes the current row *)
RollSeries_NoShift(s, win) == rolling_mean(s, win)

RollSeries(s, win) == rolling_mean(shift(s, 1), win)

RECURSIVE AddLags(_, _)
AddLags(d, lags) ==
    IF lags = <<>> THEN d
    ELSE AddLags(SetCol(d, LagName(Head(lags)), LagSeries(Col(d, Target), Head(lags))),
                 Tail(lags))

RECURSIVE AddRolls(_, _)
AddRolls(d, wins) ==
    IF wins = <<>> THEN d
    ELSE AddRolls(SetCol(d, RollName(Head(wins)), RollSeries(Col(d, Target), Head(wins))),
                  Tail(wins))

create_lag_features(d, lags, roll_windows) == AddRolls(AddLags(d, lags), roll_windows)

(* slip: as many spillover rows as the largest forecast lag *)
Spillover_MaxLags(train) == tail(train, SeqMax(ForecastLags))

Spillover(train) == tail(train, TailRows)

(* slip: the train lag lists passed for the forecast segment too *)
ForecastWithSpillover_TrainLags(train, forecast) ==
    create_lag_features(concat(Spillover(train), forecast), TrainLags, TrainRollWindows)

ForecastWithSpillover(train, forecast) ==
    create_lag_features(concat(Spillover(train), forecast), ForecastLags, ForecastRollWindows)

(* slip: the spillover rows never dropped *)
OnlyNewRows_KeepAll(forecast, train) == forecast

OnlyNewRows(forecast, train) == loc(forecast, difference(Index(forecast), Index(train)))

DayOfYear(t) == ((t \div HoursPerDay) % DaysPerYear) + 1

RowSum(r, cols) ==
    LET RECURSIVE Sum(_)
        Sum(S) == IF S = {} THEN 0
                  ELSE LET c == CHOOSE x \in S : TRUE
                       IN (IF IsNaN(r.v[c]) THEN 0 ELSE Val(r.v[c])) + Sum(S \ {c})
    IN Sum(cols)

Minus(a, b) == IF IsNaN(a) \/ IsNaN(b) THEN NaN ELSE Num(Val(a) - Val(b))

EnrichNeeds == appliance_cols \cup weekend_cols \cup {"furnace", "lag_1", "generated_solar", "hour"}

EnrichCols == {"appliance_sum", "furnace_on", "net_energy_lag_1", "hour_block", "is_weekend",
               "is_night", "dayofyear", "dayofyear_sin", "dayofyear_cos"}

SolarLag(d) == shift(Col(d, "generated_solar"), 1)

EnrichValue(d, i, c) ==
    LET r == d.rows[i]
    IN CASE c = "appliance_sum" -> Num(RowSum(r, appliance_cols))
         [] c = "furnace_on" ->
              Num(IF ~IsNaN(r.v["furnace"]) /\ Val(r.v["furnace"]) > 0 THEN 1 ELSE 0)
         [] c = "net_energy_lag_1" -> Minus(r.v["lag_1"], SolarLag(d)[i])
         [] c = "hour_block" ->
              IF IsNaN(r.v["hour"]) THEN NaN ELSE Num(Val(r.v["hour"]) \div HourBlockSize)
         [] c = "is_weekend" ->
              LET s == RowSum(r, weekend_cols) IN Num(IF s > 1 THEN 1 ELSE s)
         [] c = "is_night" ->
              Num(IF ~IsNaN(r.v["hour"]) /\ Val(r.v["hour"]) \in NightHours THEN 1 ELSE 0)
         [] c = "dayofyear" -> Num(DayOfYear(r.time))
         [] c = "dayofyear_sin" -> <<"sin", DayOfYear(r.time), DaysPerYear>>
         [] c = "dayofyear_cos" -> <<"cos", DayOfYear(r.time), DaysPerYear>>

enrich_features(d) ==
    LET cols == d.cols \cup EnrichCols
    IN [cols |-> cols,
        rows |-> [i \in 1..NRows(d) |->
                    [time |-> d.rows[i].time,
                     v |-> [c \in cols |-> IF c \in EnrichCols THEN EnrichValue(d, i, c)
                                            ELSE d.rows[i].v[c]]]]]

(* cells 65-67 as one function of the sorted table: the forecast frame *)
ForecastFrame(table) ==
    LET s == SplitIndex(NRows(table))
        tr == create_lag_features(iloc(table, 0, s), TrainLags, TrainRollWindows)
    IN OnlyNewRows(ForecastWithSpillover(tr, iloc(table, s, NRows(table))), tr)

(* ---------------------------------------------------------------- actions *)
Init ==
    /\ \E n \in 1..MaxN, seed \in Seeds, t0 \in Starts, order \in Orders :
          df = read_csv(n, seed, t0, order)
    /\ split_index = 0
    /\ train_df = EmptyFrame
    /\ forecast_df = EmptyFrame
    /\ train_csv = EmptyFrame
    /\ forecast_csv = EmptyFrame
    /\ pc = "sort"

Sort ==
    /\ pc = "sort"
    /\ df' = sort_index(df)
    /\ pc' = "split"
    /\ UNCHANGED <<split_index, train_df, forecast_df, train_csv, forecast_csv>>

Split ==
    /\ pc = "split"
    /\ split_index' = SplitIndex(NRows(df))
    /\ train_df' = iloc(df, 0, split_index')
    /\ forecast_df' = iloc(df, split_index', NRows(df))
    /\ pc' = "lag_train"
    /\ UNCHANGED <<df, train_csv, forecast_csv>>

LagTrain ==
    /\ pc = "lag_train"
    /\ IF Target \in train_df.cols
       THEN /\ train_df' = create_lag_features(train_df, TrainLags, TrainRollWindows)
            /\ pc' = "lag_forecast"
       ELSE /\ pc' = "raised"
            /\ UNCHANGED train_df
    /\ UNCHANGED <<df, split_index, forecast_df, train_csv, forecast_csv>>

LagForecast ==
    /\ pc = "lag_forecast"
    /\ IF Target \in train_df.cols \cup forecast_df.cols
       THEN /\ forecast_df' = ForecastWithSpillover(train_df, forecast_df)
            /\ pc' = "drop_spillover"
       ELSE /\ pc' = "raised"
            /\ UNCHANGED forecast_df
    /\ UNCHANGED <<df, split_index, train_df, train_csv, forecast_csv>>

DropSpillover ==
    /\ pc = "drop_spillover"
    /\ forecast_df' = OnlyNewRows(forecast_df, train_df)
    /\ pc' = "enrich_train"
    /\ UNCHANGED <<df, split_index, train_df, train_csv, forecast_csv>>

EnrichTrain ==
    /\ pc = "enrich_train"
    /\ IF EnrichNeeds \subseteq train_df.cols
       THEN /\ train_df' = enrich_features(train_df)
            /\ pc' = "enrich_forecast"
       ELSE /\ pc' = "raised"
            /\ UNCHANGED train_df
    /\ UNCHANGED <<df, split_index, forecast_df, train_csv, forecast_csv>>

EnrichForecast ==
    /\ pc = "enrich_forecast"
    /\ IF EnrichNeeds \subseteq forecast_df.cols
       THEN /\ forecast_df' = enrich_features(forecast_df)
            /\ pc' = "write"
       ELSE /\ pc' = "raised"
            /\ UNCHANGED forecast_df
    /\ UNCHANGED <<df, split_index, train_df, train_csv, forecast_csv>>

Write ==
    /\ pc = "write"
    /\ train_csv' = train_df
    /\ forecast_csv' = forecast_df
    /\ pc' = "done"
    /\ UNCHANGED <<df, split_index, train_df, forecast_df>>

Next == Sort \/ Split \/ LagTrain \/ LagForecast \/ DropSpillover
          \/ EnrichTrain \/ EnrichForecast \/ Write

Spec == Init /\ [][Next]_vars

(* --------------------------------------------------- reading the result *)
N == NRows(df)
Done == pc = "done"
AllLags == Range(TrainLags) \cup Range(ForecastLags)
AllRollWindows == Range(TrainRollWindows) \cup Range(ForecastRollWindows)
LagsIn(d) == {k \in AllLags : LagName(k) \in d.cols}
RollsIn(d) == {w \in AllRollWindows : RollName(w) \in d.cols}
Ascending(idx) == \A i \in 1..Len(idx), j \in 1..Len(idx) : i < j => idx[i] < idx[j]
TargetAt(p) == df.rows[p].v[Target]
WindowMean(p, w) == <<SeqSum([j \in 1..w |-> Val(TargetAt(p - w - 1 + j))]), w>>

(* C1: the splitter cuts the time-sorted table of N rows at floor(N*0.9):  *)
(* train is the first floor(N*0.9) rows, forecast the remaining rows, so   *)
(* the sizes add up to N; 0 rows give 0 and 0, 8400 rows 7560 and 840.     *)
C1_SplitAtFloor ==
    /\ SplitIndex(0) = 0
    /\ SplitIndex(8400) = 7560 /\ 8400 - SplitIndex(8400) = 840
    /\ pc = "lag_train" =>
         /\ Ascending(Index(df))
         /\ 10 * NRows(train_df) <= 9 * N /\ 9 * N < 10 * (NRows(train_df) + 1)
         /\ train_df.rows = SubSeq(df.rows, 1, NRows(train_df))
         /\ forecast_df.rows = SubSeq(df.rows, NRows(train_df) + 1, N)
         /\ NRows(train_df) + NRows(forecast_df) = N

C1_Witness ==
    /\ pc = "lag_train" /\ N = 55
    /\ NRows(train_df) = 49 /\ NRows(forecast_df) = 6

(* C2: with unique timestamps the written train and forecast outputs share *)
(* no timestamp, every train timestamp is earlier than every forecast      *)
(* timestamp, and train timestamps followed by forecast timestamps are the *)
(* timestamps of the sorted input table, in order.                         *)
C2_DisjointOrderedPartition ==
    Done =>
      /\ Ascending(Index(df))
      /\ Range(Index(train_csv)) \cap Range(Index(forecast_csv)) = {}
      /\ \A a \in Range(Index(train_csv)), b \in Range(Index(forecast_csv)) : a < b
      /\ Index(train_csv) \o Index(forecast_csv) = Index(df)

C2_Witness ==
    /\ Done /\ NRows(train_csv) > TailRows /\ NRows(forecast_csv) > 1

(* C3 (as claimed): in the forecast output every lag_k / roll_mean_w       *)
(* column it contains is non-missing in a row exactly when at least k      *)
(* (resp. w) observations precede the row in the sorted full table.        *)
C3_ForecastFeaturesPopulated ==
    Done =>
      \A i \in 1..NRows(forecast_csv) :
        LET prior == split_index + i - 1
            r == forecast_csv.rows[i]
        IN /\ \A k \in LagsIn(forecast_csv) : IsNaN(r.v[LagName(k)]) <=> prior < k
           /\ \A w \in RollsIn(forecast_csv) : IsNaN(r.v[RollName(w)]) <=> prior < w

(* C4 (as claimed): enriching train and forecast separately gives, in      *)
(* every row and enrichment column, the value that enriching the whole     *)
(* table (train rows then forecast rows, same lag columns) gives.          *)
DropCols(d, drop) ==
    [cols |-> d.cols \ drop,
     rows |-> [i \in 1..NRows(d) |->
                 [time |-> d.rows[i].time, v |-> [c \in d.cols \ drop |-> d.rows[i].v[c]]]]]

C4_EnrichSeparatelyEqualsWhole ==
    Done =>
      LET whole == enrich_features(concat(DropCols(train_csv, EnrichCols),
                                          DropCols(forecast_csv, EnrichCols)))
      IN \A c \in EnrichCols :
           Col(whole, c) = Col(train_csv, c) \o Col(forecast_csv, c)

(* C5: every non-missing lag_k in either output is the target of the row k *)
(* positions earlier in the sorted full table, every non-missing           *)
(* roll_mean_w the mean of the target over the w rows just before the row  *)
(* (the row itself excluded); in the train segment, processed on its own,  *)
(* lag_k is missing in exactly the first k rows and roll_mean_w in exactly *)
(* the first w rows.                                                       *)
FeaturesFromPast(d, offset) ==
    \A i \in 1..NRows(d) :
      LET p == offset + i
          r == d.rows[i]
      IN /\ \A k \in LagsIn(d) :
              ~IsNaN(r.v[LagName(k)]) => p > k /\ r.v[LagName(k)] = TargetAt(p - k)
         /\ \A w \in RollsIn(d) :
              ~IsNaN(r.v[RollName(w)]) => p > w /\ r.v[RollName(w)] = WindowMean(p, w)

C5_LagsAndRollsFromPast ==
    Done =>
      /\ FeaturesFromPast(train_csv, 0)
      /\ FeaturesFromPast(forecast_csv, split_index)
      /\ LagsIn(train_csv) = Range(TrainLags)
      /\ RollsIn(train_csv) = Range(TrainRollWindows)
      /\ \A i \in 1..NRows(train_csv) :
           /\ \A k \in Range(TrainLags) : IsNaN(train_csv.rows[i].v[LagName(k)]) <=> i <= k
           /\ \A w \in Range(TrainRollWindows) :
                IsNaN(train_csv.rows[i].v[RollName(w)]) <=> i <= w

C5_Witness ==
    /\ Done /\ NRows(train_csv) > 48 /\ NRows(forecast_csv) > 0
    /\ ~IsNaN(train_csv.rows[49].v["lag_48"])
    /\ ~IsNaN(train_csv.rows[25].v["roll_mean_24"])
    /\ ~IsNaN(forecast_csv.rows[1].v["roll_mean_12"])
    /\ ~IsNaN(forecast_csv.rows[1].v["lag_3"])

(* C6 (as claimed): two tables that agree on the training segment and      *)
(* differ in forecast-segment targets give the same lag_k and roll_mean_w  *)
(* in every forecast output row.                                           *)
PerturbFrom(table, d) ==
    [cols |-> table.cols,
     rows |-> [i \in 1..NRows(table) |->
                 IF i < d THEN table.rows[i]
                 ELSE [time |-> table.rows[i].time,
                       v |-> [c \in table.cols |->
                                IF c = Target THEN Num(Val(table.rows[i].v[c]) + i)
                                ELSE table.rows[i].v[c]]]]]

LagRollCols(d) == {LagName(k) : k \in LagsIn(d)} \cup {RollName(w) : w \in RollsIn(d)}

SameFeatures(a, b, i) ==
    /\ LagRollCols(a) = LagRollCols(b)
    /\ \A c \in LagRollCols(a) : a.rows[i].v[c] = b.rows[i].v[c]

C6_ForecastFeaturesFromTrainOnly ==
    Done =>
      \A d \in (split_index + 1)..N :
        LET other == ForecastFrame(PerturbFrom(df, d))
        IN \A i \in 1..NRows(forecast_csv) : SameFeatures(forecast_csv, other, i)

(* C6 (amended): the lag_k and roll_mean_w of a forecast output row depend *)
(* only on targets of rows strictly before it, training rows or earlier    *)
(* forecast rows: two tables that agree on every row before position d     *)
(* give the same values in every forecast row at a position <= d.          *)
C6_ForecastFeaturesFromEarlierRowsOnly ==
    Done =>
      /\ \A i \in 1..NRows(forecast_csv) : SameFeatures(forecast_csv, ForecastFrame(df), i)
      /\ \A d \in (split_index + 1)..N :
           LET other == ForecastFrame(PerturbFrom(df, d))
           IN \A i \in 1..NRows(forecast_csv) :
                split_index + i <= d => SameFeatures(forecast_csv, other, i)

C6_Witness ==
    /\ Done /\ NRows(forecast_csv) > 3 /\ split_index > TailRows
    /\ ~SameFeatures(forecast_csv, ForecastFrame(PerturbFrom(df, split_index + 1)), 2)

(* C7: when the training segment has fewer rows than the largest rolling   *)
(* window of the forecast segment (an empty training segment included) the *)
(* notebook runs to the end without raising, and in the forecast output a  *)
(* rolling feature is missing exactly in the rows with fewer than w prior  *)
(* observations and populated in the others.                               *)
Stages == {"sort", "split", "lag_train", "lag_forecast", "drop_spillover",
           "enrich_train", "enrich_forecast", "write"}

ShortTrain == SplitIndex(N) < SeqMax(ForecastRollWindows)

C7_ShortHistoryLeftMissing ==
    ShortTrain =>
      /\ pc # "raised"
      /\ pc \in Stages \cup {"done"}
      /\ Done =>
           /\ NRows(forecast_csv) = N - split_index
           /\ RollsIn(forecast_csv) # {}
           /\ \A i \in 1..NRows(forecast_csv), w \in RollsIn(forecast_csv) :
                IsNaN(forecast_csv.rows[i].v[RollName(w)]) <=> split_index + i - 1 < w

C7_Witness ==
    /\ Done /\ split_index = 11 /\ NRows(train_csv) = 11
    /\ IsNaN(forecast_csv.rows[1].v["roll_mean_12"])
    /\ ~IsNaN(forecast_csv.rows[1].v["roll_mean_6"])
    /\ ~IsNaN(forecast_csv.rows[2].v["roll_mean_12"])

(* C8 (as documented): the split is 80/20, the first 80% of the sorted     *)
(* rows are the training set and the final 20% the forecast holdout.       *)
C8_EightyTwentySplit ==
    pc = "lag_train" =>
      /\ NRows(train_df) = (8 * N) \div 10
      /\ NRows(forecast_df) = N - (8 * N) \div 10

(* C9 (as claimed): the generator runs on the last max(lags) training rows *)
(* (max over the forecast lag offsets) followed by the forecast segment.   *)
SpilledRows(k) == IF split_index < k THEN split_index ELSE k

GeneratorInput(k) ==
    /\ NRows(forecast_df) = SpilledRows(k) + (N - split_index)
    /\ Index(forecast_df) = SubSeq(Index(df), split_index - SpilledRows(k) + 1, N)
    /\ \A i \in 1..SpilledRows(k) :
         forecast_df.rows[i].time = train_df.rows[split_index - SpilledRows(k) + i].time

C9_SpilloverIsMaxLags ==
    pc = "drop_spillover" => GeneratorInput(SeqMax(ForecastLags))

(* C9 (amended): the generator runs on the last 12 training rows (12 is    *)
(* the largest rolling window passed for the forecast segment, not the     *)
(* largest lag, 3) followed by the full forecast segment, and all of those *)
(* spillover rows, and only those, are removed from the result.            *)
C9_SpilloverIsTwelveRows ==
    /\ pc = "drop_spillover" =>
         /\ GeneratorInput(SeqMax(ForecastRollWindows))
         /\ \A k \in Range(ForecastLags) :
              Col(forecast_df, LagName(k)) = shift(Col(forecast_df, Target), k)
    /\ pc = "enrich_train" =>
         LET s == SpilledRows(SeqMax(ForecastRollWindows))
             all == ForecastWithSpillover(train_df, iloc(df, split_index, N))
         IN /\ Index(forecast_df) = SubSeq(Index(df), split_index + 1, N)
            /\ forecast_df.rows = SubSeq(all.rows, s + 1, NRows(all))

C9_Witness ==
    /\ pc = "enrich_train" /\ split_index > TailRows /\ NRows(forecast_df) > 1
    /\ ~IsNaN(forecast_df.rows[1].v["roll_mean_12"])

(* C10: when the training segment is not empty the two outputs have the    *)
(* same set of columns; the columns generated for train only (lag_6,       *)
(* lag_12, lag_24, lag_48, roll_mean_24) are in the forecast output and    *)
(* missing in every forecast row, whatever history precedes the row.       *)
TrainOnlyCols ==
    {LagName(k) : k \in Range(TrainLags) \ Range(ForecastLags)}
      \cup {RollName(w) : w \in Range(TrainRollWindows) \ Range(ForecastRollWindows)}

C10_TrainOnlyColumnsAllMissing ==
    Done /\ NRows(train_csv) > 0 =>
      /\ train_csv.cols = forecast_csv.cols
      /\ TrainOnlyCols = {"lag_6", "lag_12", "lag_24", "lag_48", "roll_mean_24"}
      /\ TrainOnlyCols \subseteq forecast_csv.cols
      /\ \A i \in 1..NRows(forecast_csv), c \in TrainOnlyCols : IsNaN(forecast_csv.rows[i].v[c])

C10_Witness ==
    /\ Done /\ split_index > 48 /\ NRows(forecast_csv) > 0
    /\ ~IsNaN(train_csv.rows[49].v["lag_48"])
    /\ IsNaN(forecast_csv.rows[1].v["lag_48"])
    /\ IsNaN(forecast_csv.rows[1].v["roll_mean_24"])

====
